---- MODULE Spec2Model ----
(***************************************************************************)
(* The request gateway of the code interpreter service                     *)
(* (src/src/code_interpreter/services/http_server.py, create_http_server)  *)
(* as a state machine.  Every request slot is one asyncio task serving one *)
(* HTTP request: FastAPI first resolves the set_request_id dependency and  *)
(* then runs the handler.  A handler runs without interruption between two *)
(* awaits, so an action is one await of a collaborator (Storage,           *)
(* KubernetesCodeExecutor, CustomToolExecutor) together with the handler   *)
(* code up to the next await or to the response.                           *)
(*                                                                         *)
(* Storage, the code executor and the custom tool executor are imported by *)
(* http_server.py and are not part of the sources at hand; they are        *)
(* modelled from their contracts (sections 4.1 to 4.4 of the               *)
(* specification).                                                         *)
(***************************************************************************)
EXTENDS Bags, FiniteSets, Integers, Sequences, TLC

VARIABLES
    objects,      \* Storage: the bag of stored objects [hash, content]
    pc,           \* per request: "idle", "handler", "deleting", "done"
    req,          \* per request: the inbound request (endpoint and parameters)
    request_id,   \* per request: the handler's request_id parameter
    workerCtx,    \* per request: request_id_context_var in the worker thread's context copy
    taskCtx,      \* per request: request_id_context_var in the request task's context
    content,      \* per request: get_file's local variable content
    resp,         \* per request: the response of the gateway
    outcome,      \* per request: what the collaborator's call did (history)
    seen,         \* per request: hist of the hash when get_file read it (history)
    call,         \* per request: the arguments of its code_executor.execute call (history)
    hist          \* per hash: the last completed write or delete (history)

vars == <<objects, pc, req, request_id, workerCtx, taskCtx, content, resp,
          outcome, seen, call, hist>>

(***************************************************************************)
(* Bounds of the model.                                                    *)
(***************************************************************************)
MaxReq == 2

Reqs == 1..MaxReq

Contents == {"c1", "c2"}

FileHashes == {"h1", "h2"}

\* The hash requests name in a path or a manifest; the other one is only written.
RequestedHashes == {"h1"}

Msgs == {"m1", "m2"}

Unset == <<"unset", 0>>

(***************************************************************************)
(* Request models.                                                         *)
(***************************************************************************)
DefaultTimeout == 60

Timeouts == {-1, 0, DefaultTimeout}

AbsPath(name) == <<"/", name>>

NoRequest ==
    [ep |-> "none", file_hash |-> "", delete |-> FALSE, file |-> "",
     source_file |-> AbsPath("main.py"), files |-> {},
     timeout |-> DefaultTimeout,
     tool_source_code |-> "", tool_input_json |-> <<"json", "in">>]

DeleteRequests ==
    {[NoRequest EXCEPT !.ep = "delete_file", !.file_hash = h] : h \in RequestedHashes}

GetRequests ==
    {[NoRequest EXCEPT !.ep = "get_file", !.file_hash = h, !.delete = d] :
        h \in RequestedHashes, d \in BOOLEAN}

PutRequests ==
    {[NoRequest EXCEPT !.ep = "write_file", !.file = c] : c \in Contents}

NoResponse == [status |-> 0, body |-> [none |-> TRUE]]

NoOutcome == [kind |-> "none", value |-> [none |-> TRUE]]

NoCall == [made |-> FALSE, timeout |-> 0]

Never == [op |-> "never", content |-> ""]

(***************************************************************************)
(* Content-addressed store (contract of section 4.1).                      *)
(***************************************************************************)
Hash(c) == IF c = "c1" THEN "h1" ELSE "h2"

Stored(h) == {o \in BagToSet(objects) : o.hash = h}

Exists(h) == Stored(h) # {}

StorageWrite(bag, c) ==
    IF \E o \in BagToSet(bag) : o.hash = Hash(c)
    THEN bag
    ELSE bag (+) SetToBag({[hash |-> Hash(c), content |-> c]})

StorageRead(h) == (CHOOSE o \in Stored(h) : TRUE).content

StorageDelete(bag, h) ==
    [o \in {p \in BagToSet(bag) : p.hash # h} |-> bag[o]]

(***************************************************************************)
(* Responses.                                                              *)
(***************************************************************************)
HTTPException(status_code, detail) ==
    [status |-> status_code, body |-> [detail |-> detail]]

JsonOk(body) == [status |-> 200, body |-> body]

InternalServerError ==
    [status |-> 500, body |-> [text |-> "Internal Server Error"]]

ValidationError ==
    [status |-> 422, body |-> [detail |-> "validation"]]

Exc(type, msg, errors) == [type |-> type, msg |-> msg, errors |-> errors]

Str(e) == e.msg

Raised(e) == [kind |-> "raised", value |-> e]

Returned(v) == [kind |-> "returned", value |-> v]

(***************************************************************************)
(* set_request_id, the dependency of every endpoint.                       *)
(***************************************************************************)
Uuid4(r) ==
    LET n == CHOOSE u \in Reqs :
        /\ <<"uuid", u>> \notin {request_id[q] : q \in Reqs \ {r}}
        /\ \A v \in Reqs :
               <<"uuid", v>> \notin {request_id[q] : q \in Reqs \ {r}} => u <= v
    IN  <<"uuid", n>>

SetRequestId(r) ==
    /\ request_id' = [request_id EXCEPT ![r] = Uuid4(r)]
    /\ workerCtx' = [workerCtx EXCEPT ![r] = Uuid4(r)]
    /\ UNCHANGED taskCtx

(***************************************************************************)
(* DELETE /v1/files/{file_hash}                                            *)
(***************************************************************************)
DeleteFileResponse == JsonOk([message |-> "File deleted"])

DeleteFile(r) ==
    /\ pc[r] = "handler"
    /\ req[r].ep = "delete_file"
    /\ outcome' = [outcome EXCEPT
                      ![r] = Returned([existed |-> Exists(req[r].file_hash)])]
    /\ objects' = StorageDelete(objects, req[r].file_hash)
    /\ hist' = [hist EXCEPT ![req[r].file_hash] = [op |-> "deleted", content |-> ""]]
    /\ resp' = [resp EXCEPT ![r] = DeleteFileResponse]
    /\ pc' = [pc EXCEPT ![r] = "done"]
    /\ UNCHANGED <<req, request_id, workerCtx, taskCtx, content, seen, call>>

(***************************************************************************)
(* GET /v1/files/{file_hash}?delete=bool                                   *)
(***************************************************************************)
\* Mutant of GetFileResponse: the body is the hash, not the content read.
GetFileResponseOfHash(c, file_hash) ==
    [status |-> 200,
     body |-> [content |-> file_hash, media_type |-> "application/octet-stream",
               disposition |-> <<"attachment; filename=", file_hash>>]]

GetFileResponse(c, file_hash) ==
    [status |-> 200,
     body |-> [content |-> c, media_type |-> "application/octet-stream",
               disposition |-> <<"attachment; filename=", file_hash>>]]

\* Mutant of GetFileNotFound: FileNotFoundError is not told from other errors.
GetFileNotFoundAsError(file_hash) ==
    HTTPException(500, "no such object")

GetFileNotFound(file_hash) ==
    HTTPException(404, <<"File with hash", file_hash, "not found">>)

GetFileError(e) == HTTPException(500, Str(e))

\* Mutant of DeleteAfterRead: the delete flag is not consulted.
DeleteAfterReadAlways(delete) == TRUE

DeleteAfterRead(delete) == delete

GetFileRead(r) ==
    /\ pc[r] = "handler"
    /\ req[r].ep = "get_file"
    /\ seen' = [seen EXCEPT ![r] = hist[req[r].file_hash]]
    /\ IF Exists(req[r].file_hash)
       THEN /\ content' = [content EXCEPT ![r] = StorageRead(req[r].file_hash)]
            /\ outcome' = [outcome EXCEPT
                  ![r] = Returned([content |-> StorageRead(req[r].file_hash),
                                   deleted |-> FALSE, existed |-> TRUE])]
            /\ IF DeleteAfterRead(req[r].delete)
               THEN /\ pc' = [pc EXCEPT ![r] = "deleting"]
                    /\ UNCHANGED resp
               ELSE /\ pc' = [pc EXCEPT ![r] = "done"]
                    /\ resp' = [resp EXCEPT
                          ![r] = GetFileResponse(StorageRead(req[r].file_hash),
                                                 req[r].file_hash)]
       ELSE /\ outcome' = [outcome EXCEPT
                  ![r] = Raised(Exc("FileNotFoundError", "no such object", <<>>))]
            /\ resp' = [resp EXCEPT ![r] = GetFileNotFound(req[r].file_hash)]
            /\ pc' = [pc EXCEPT ![r] = "done"]
            /\ UNCHANGED content
    /\ UNCHANGED <<objects, req, request_id, workerCtx, taskCtx, call, hist>>

GetFileDelete(r) ==
    /\ pc[r] = "deleting"
    /\ objects' = StorageDelete(objects, req[r].file_hash)
    /\ hist' = [hist EXCEPT ![req[r].file_hash] = [op |-> "deleted", content |-> ""]]
    /\ outcome' = [outcome EXCEPT
          ![r].value.deleted = TRUE,
          ![r].value.existed = Exists(req[r].file_hash)]
    /\ resp' = [resp EXCEPT ![r] = GetFileResponse(content[r], req[r].file_hash)]
    /\ pc' = [pc EXCEPT ![r] = "done"]
    /\ UNCHANGED <<req, request_id, workerCtx, taskCtx, content, seen, call>>

(***************************************************************************)
(* PUT /v1/files                                                           *)
(***************************************************************************)
\* Mutant of WriteFileResponse: the hash returned is not the one stored.
WriteFileResponseOfOther(stored_hash) ==
    JsonOk([hash |-> IF stored_hash = "h1" THEN "h2" ELSE "h1"])

WriteFileResponse(stored_hash) == JsonOk([hash |-> stored_hash])

WriteFileError(e) == HTTPException(500, Str(e))

WriteFile(r) ==
    /\ pc[r] = "handler"
    /\ req[r].ep = "write_file"
    /\ objects' = StorageWrite(objects, req[r].file)
    /\ outcome' = [outcome EXCEPT ![r] = Returned([hash |-> Hash(req[r].file)])]
    /\ resp' = [resp EXCEPT ![r] = WriteFileResponse(Hash(req[r].file))]
    /\ hist' = [hist EXCEPT
          ![WriteFileResponse(Hash(req[r].file)).body.hash] =
              [op |-> "written", content |-> req[r].file]]
    /\ pc' = [pc EXCEPT ![r] = "done"]
    /\ UNCHANGED <<req, request_id, workerCtx, taskCtx, content, seen, call>>

(***************************************************************************)
(* POST /v1/execute                                                        *)
(***************************************************************************)
Manifest == {<<AbsPath("a.txt"), h>> : h \in RequestedHashes}

ExecuteRequests ==
    {[NoRequest EXCEPT !.ep = "execute", !.timeout = t] : t \in Timeouts}
    \cup {[NoRequest EXCEPT !.ep = "execute", !.files = Manifest]}
    \cup {[NoRequest EXCEPT !.ep = "execute", !.source_file = <<"main.py">>]}

AbsolutePath(p) == Head(p) = "/"

ValidExecuteRequest(q) ==
    /\ AbsolutePath(q.source_file)
    /\ \A f \in q.files : AbsolutePath(f[1]) /\ f[2] \in FileHashes
    /\ q.timeout \in Int

\* Execution dispatcher (contract of section 4.2): the results a run may have.
ExecutionResults(files) ==
    {[stdout |-> "done", stderr |-> "", exit_code |-> 0,
      files |-> files \cup {<<AbsPath("out.txt"), Hash("c2")>>},
      written |-> {"c2"}],
     [stdout |-> "", stderr |-> "boom", exit_code |-> 7,
      files |-> files, written |-> {}]}

MissingHashes(files) == {f[2] : f \in {g \in files : ~Exists(g[2])}}

ExecuteResponse(result) ==
    [stdout |-> result.stdout, stderr |-> result.stderr,
     exit_code |-> result.exit_code, files |-> result.files]

ExecuteError(e) == HTTPException(500, Str(e))

\* Mutant of ExecuteHandler: a non-zero exit code is answered as a failure.
ExecuteHandlerFailingExit(out) ==
    IF out.kind = "raised"
    THEN ExecuteError(out.value)
    ELSE IF out.value.exit_code # 0
         THEN HTTPException(500, out.value.stderr)
         ELSE JsonOk(ExecuteResponse(out.value))

ExecuteHandler(out) ==
    IF out.kind = "raised"
    THEN ExecuteError(out.value)
    ELSE JsonOk(ExecuteResponse(out.value))

ExecuteStep(r, out) ==
    /\ pc[r] = "handler"
    /\ req[r].ep = "execute"
    /\ call' = [call EXCEPT ![r] = [made |-> TRUE, timeout |-> req[r].timeout]]
    /\ outcome' = [outcome EXCEPT ![r] = out]
    /\ resp' = [resp EXCEPT ![r] = ExecuteHandler(out)]
    /\ pc' = [pc EXCEPT ![r] = "done"]
    /\ UNCHANGED <<req, request_id, workerCtx, taskCtx, content, seen>>

Execute(r) ==
    IF MissingHashes(req[r].files) # {}
    THEN /\ ExecuteStep(r, Raised(Exc("FileNotFoundError", "no such object", <<>>)))
         /\ UNCHANGED <<objects, hist>>
    ELSE \E res \in ExecutionResults(req[r].files) :
            /\ ExecuteStep(r, Returned(res))
            /\ IF res.written = {}
               THEN UNCHANGED <<objects, hist>>
               ELSE /\ objects' = StorageWrite(objects, "c2")
                    /\ hist' = [hist EXCEPT
                          ![Hash("c2")] = [op |-> "written", content |-> "c2"]]

(***************************************************************************)
(* POST /v1/parse-custom-tool and POST /v1/execute-custom-tool             *)
(***************************************************************************)
ParseRequests ==
    {[NoRequest EXCEPT !.ep = "parse_custom_tool", !.tool_source_code = s] :
        s \in {"tool_ok", "tool_bad1", "tool_bad2"}}

ToolRequests ==
    {[NoRequest EXCEPT !.ep = "execute_custom_tool", !.tool_source_code = s,
                       !.tool_input_json = j] :
        s \in {"tool_ok", "tool_crash"}, j \in {<<"json", "in">>, <<"text", "in">>}}

JsonDumps(v) == <<"json", v>>

JsonValid(j) == j[1] = "json"

JsonLoads(j) == j[2]

\* Tool parser (contract of section 4.3).
ToolParse(src) ==
    CASE src = "tool_bad1" ->
           Raised(Exc("CustomToolParseError", "", <<"e1">>))
      [] src = "tool_bad2" ->
           Raised(Exc("CustomToolParseError", "", <<"e1", "e2">>))
      [] OTHER ->
           Returned([name |-> src, input_schema |-> "schema",
                     description |-> "description"])

\* Tool invoker (contract of section 4.4).
ToolInvoke(src, tool_input) ==
    IF src = "tool_crash"
    THEN Raised(Exc("CustomToolExecuteError", "traceback", <<>>))
    ELSE Returned(<<"out", tool_input>>)

ParseCustomToolResponse(custom_tool) ==
    [tool_name |-> custom_tool.name,
     tool_input_schema_json |-> JsonDumps(custom_tool.input_schema),
     tool_description |-> custom_tool.description]

ExecuteCustomToolResponse(result) == [tool_output_json |-> JsonDumps(result)]

ParseErrorHandler(e) ==
    [status |-> 400, body |-> [error_messages |-> e.errors]]

ExecuteErrorHandler(e) ==
    [status |-> 400, body |-> [stderr |-> Str(e)]]

\* Mutant of ExceptionHandler: the second handler registered under the name
\* validation_exception_handler serves both exception types.
ExceptionHandlerShared(e) ==
    CASE e.type = "CustomToolParseError" -> ExecuteErrorHandler(e)
      [] e.type = "CustomToolExecuteError" -> ExecuteErrorHandler(e)
      [] OTHER -> InternalServerError

ExceptionHandler(e) ==
    CASE e.type = "CustomToolParseError" -> ParseErrorHandler(e)
      [] e.type = "CustomToolExecuteError" -> ExecuteErrorHandler(e)
      [] OTHER -> InternalServerError

ToolStep(r, out, ok) ==
    /\ pc[r] = "handler"
    /\ outcome' = [outcome EXCEPT ![r] = out]
    /\ resp' = [resp EXCEPT
          ![r] = IF out.kind = "raised" THEN ExceptionHandler(out.value) ELSE ok]
    /\ pc' = [pc EXCEPT ![r] = "done"]
    /\ UNCHANGED <<objects, req, request_id, workerCtx, taskCtx, content, seen,
                   call, hist>>

ParseCustomTool(r) ==
    /\ req[r].ep = "parse_custom_tool"
    /\ LET out == ToolParse(req[r].tool_source_code)
       IN  ToolStep(r, out,
                    IF out.kind = "returned"
                    THEN JsonOk(ParseCustomToolResponse(out.value))
                    ELSE NoResponse)

ExecuteCustomTool(r) ==
    /\ req[r].ep = "execute_custom_tool"
    /\ IF JsonValid(req[r].tool_input_json)
       THEN LET out == ToolInvoke(req[r].tool_source_code,
                                  JsonLoads(req[r].tool_input_json))
            IN  ToolStep(r, out,
                         IF out.kind = "returned"
                         THEN JsonOk(ExecuteCustomToolResponse(out.value))
                         ELSE NoResponse)
       ELSE ToolStep(r, Raised(Exc("JSONDecodeError", "bad json", <<>>)),
                     NoResponse)

(***************************************************************************)
(* An inbound request: FastAPI validates the request model and resolves    *)
(* the dependency set_request_id before the handler body runs.  The        *)
(* dependency is a plain def, which FastAPI runs in a worker thread        *)
(* (run_in_threadpool): the thread runs it in a copy of the request task's *)
(* context, so the ContextVar.set of line 85 lands in that copy and the    *)
(* task's own context keeps the value it was created with.                 *)
(***************************************************************************)
Requests ==
    DeleteRequests \cup GetRequests \cup PutRequests \cup ExecuteRequests
        \cup ParseRequests \cup ToolRequests

ValidRequest(q) == q.ep = "execute" => ValidExecuteRequest(q)

Start(r, q) ==
    /\ pc[r] \in {"idle", "done"}
    /\ req' = [req EXCEPT ![r] = q]
    /\ SetRequestId(r)
    /\ content' = [content EXCEPT ![r] = ""]
    /\ outcome' = [outcome EXCEPT ![r] = NoOutcome]
    /\ seen' = [seen EXCEPT ![r] = Never]
    /\ IF ValidRequest(q)
       THEN /\ pc' = [pc EXCEPT ![r] = "handler"]
            /\ resp' = [resp EXCEPT ![r] = NoResponse]
       ELSE /\ pc' = [pc EXCEPT ![r] = "done"]
            /\ resp' = [resp EXCEPT ![r] = ValidationError]
    /\ call' = [call EXCEPT ![r] = NoCall]
    /\ UNCHANGED <<objects, hist>>

(***************************************************************************)
(* Backend failures: a collaborator raises an exception that is none of    *)
(* its typed failures (StorageIOError, ExecutionInfraError).               *)
(***************************************************************************)
StorageIOError(m) == Exc("StorageIOError", m, <<>>)

ExecutionInfraError(m) == Exc("ExecutionInfraError", m, <<>>)

Fail(r, out, response) ==
    /\ outcome' = [outcome EXCEPT ![r] = out]
    /\ resp' = [resp EXCEPT ![r] = response]
    /\ pc' = [pc EXCEPT ![r] = "done"]
    /\ UNCHANGED <<objects, req, request_id, workerCtx, taskCtx, content, call,
                   hist>>

GetFileReadFault(r, m) ==
    /\ pc[r] = "handler"
    /\ req[r].ep = "get_file"
    /\ seen' = [seen EXCEPT ![r] = hist[req[r].file_hash]]
    /\ Fail(r, Raised(StorageIOError(m)), GetFileError(StorageIOError(m)))

GetFileDeleteFault(r, m) ==
    /\ pc[r] = "deleting"
    /\ UNCHANGED seen
    /\ Fail(r, Raised(StorageIOError(m)), GetFileError(StorageIOError(m)))

WriteFileFault(r, m) ==
    /\ pc[r] = "handler"
    /\ req[r].ep = "write_file"
    /\ UNCHANGED seen
    /\ Fail(r, Raised(StorageIOError(m)), WriteFileError(StorageIOError(m)))

DeleteFileFault(r, m) ==
    /\ pc[r] = "handler"
    /\ req[r].ep = "delete_file"
    /\ UNCHANGED seen
    /\ Fail(r, Raised(StorageIOError(m)), ExceptionHandler(StorageIOError(m)))

ExecuteFault(r, m) ==
    /\ ExecuteStep(r, Raised(ExecutionInfraError(m)))
    /\ UNCHANGED <<objects, hist>>

ExecuteCustomToolFault(r, m) ==
    /\ req[r].ep = "execute_custom_tool"
    /\ ToolStep(r, Raised(ExecutionInfraError(m)), NoResponse)

(***************************************************************************)
(* Specifications.                                                         *)
(***************************************************************************)
Init ==
    /\ objects = EmptyBag
    /\ pc = [r \in Reqs |-> "idle"]
    /\ req = [r \in Reqs |-> NoRequest]
    /\ request_id = [r \in Reqs |-> Unset]
    /\ workerCtx = [r \in Reqs |-> Unset]
    /\ taskCtx = [r \in Reqs |-> Unset]
    /\ content = [r \in Reqs |-> ""]
    /\ resp = [r \in Reqs |-> NoResponse]
    /\ outcome = [r \in Reqs |-> NoOutcome]
    /\ seen = [r \in Reqs |-> Never]
    /\ call = [r \in Reqs |-> NoCall]
    /\ hist = [h \in FileHashes |-> Never]

FileRequests == DeleteRequests \cup GetRequests \cup PutRequests

FileNext ==
    \E r \in Reqs :
        \/ \E q \in FileRequests : Start(r, q)
        \/ DeleteFile(r)
        \/ GetFileRead(r)
        \/ GetFileDelete(r)
        \/ WriteFile(r)

ExecuteNext ==
    \E r \in Reqs :
        \/ \E q \in PutRequests \cup ExecuteRequests : Start(r, q)
        \/ WriteFile(r)
        \/ Execute(r)
        \/ \E m \in Msgs : ExecuteFault(r, m)

ToolNext ==
    \E r \in Reqs :
        \/ \E q \in ParseRequests \cup ToolRequests : Start(r, q)
        \/ ParseCustomTool(r)
        \/ ExecuteCustomTool(r)
        \/ \E m \in Msgs : ExecuteCustomToolFault(r, m)

FaultNext ==
    \E r \in Reqs :
        \/ \E q \in Requests : Start(r, q)
        \/ DeleteFile(r)
        \/ GetFileRead(r)
        \/ GetFileDelete(r)
        \/ WriteFile(r)
        \/ Execute(r)
        \/ ParseCustomTool(r)
        \/ ExecuteCustomTool(r)
        \/ \E m \in Msgs :
              \/ GetFileReadFault(r, m)
              \/ GetFileDeleteFault(r, m)
              \/ WriteFileFault(r, m)
              \/ DeleteFileFault(r, m)
              \/ ExecuteFault(r, m)
              \/ ExecuteCustomToolFault(r, m)

\* The file endpoints over a Store that keeps to its typed outcomes.
Spec == Init /\ [][FileNext]_vars

\* POST /v1/execute beside writes of files, the dispatcher failing or not.
ExecuteSpec == Init /\ [][ExecuteNext]_vars

\* The custom tool endpoints, the sandbox failing or not.
ToolSpec == Init /\ [][ToolNext]_vars

\* Every endpoint, over collaborators that may also fail.
FaultSpec == Init /\ [][FaultNext]_vars

(***************************************************************************)
(* Properties.                                                             *)
(***************************************************************************)
Done(r, ep) == pc[r] = "done" /\ req[r].ep = ep

\* C1: read-after-write.  A get_file that reads a hash H whose last completed
\* write or delete is a write of content C that returned H (no delete of H
\* since) holds C as its content and responds 200 with the body C: never
\* 404, never other bytes, whatever else was written meanwhile.
ReadAfterWrite ==
    \A r \in Reqs :
        (req[r].ep = "get_file" /\ pc[r] \in {"deleting", "done"}
            /\ seen[r].op = "written")
        => /\ content[r] = seen[r].content
           /\ pc[r] = "done" =>
                 /\ resp[r].status = 200
                 /\ resp[r].body.content = seen[r].content

\* C1 witness: a GET of h1 answered 200 with c1 after the PUT of c1 returned
\* h1, while the other slot completed a PUT of the other content.
ReadAfterWriteWitness ==
    \E r, q \in Reqs :
        /\ Done(r, "get_file")
        /\ seen[r] = [op |-> "written", content |-> "c1"]
        /\ resp[r].status = 200
        /\ resp[r].body.content = "c1"
        /\ Done(q, "write_file")
        /\ req[q].file = "c2"
        /\ Exists("h2")

\* C2: delete-then-read and idempotent delete.  A get_file that reads a hash
\* whose last completed write or delete is a delete responds 404; a hash stays
\* absent from the Store from its delete until it is written again; every
\* delete_file, also of a hash that is not in the Store, responds with the
\* acknowledgment {message} and status 200.
DeleteThenRead ==
    /\ \A r \in Reqs :
          (Done(r, "get_file") /\ seen[r].op = "deleted") => resp[r].status = 404
    /\ \A h \in FileHashes : hist[h].op = "deleted" => ~Exists(h)
    /\ \A r \in Reqs :
          Done(r, "delete_file")
          => resp[r] = [status |-> 200, body |-> [message |-> "File deleted"]]

\* C2 witness: a DELETE of a hash that was already gone was acknowledged, and
\* a GET of the deleted hash was answered 404.
DeleteThenReadWitness ==
    \E r, q \in Reqs :
        /\ Done(r, "delete_file")
        /\ outcome[r].value.existed = FALSE
        /\ resp[r].status = 200
        /\ hist[req[r].file_hash].op = "deleted"
        /\ Done(q, "get_file")
        /\ seen[q].op = "deleted"
        /\ resp[q].status = 404

GetFileStep(r) ==
    /\ req[r].ep = "get_file"
    /\ pc[r] \in {"handler", "deleting"}
    /\ pc'[r] # pc[r]

\* C10: post-read deletion.  In every step of a get_file: the Store changes
\* only in the step after a successful read, and only with delete=true; a
\* request whose read succeeded completes with 200 and the content it read,
\* also when the object was removed meanwhile, and with delete=true the hash
\* is absent from the Store when it completes; a request whose read raised
\* not-found completes with 404 in the step of the read, the Store unchanged.
PostReadDeletion ==
    [][\A r \in Reqs :
          GetFileStep(r)
          => /\ pc[r] = "handler" => objects' = objects
             /\ ~req[r].delete => (objects' = objects /\ pc'[r] = "done")
             /\ pc'[r] = "deleting" =>
                   (req[r].delete /\ outcome'[r].kind = "returned")
             /\ (pc'[r] = "done" /\ outcome'[r].kind = "returned") =>
                   /\ resp'[r].status = 200
                   /\ resp'[r].body.content = outcome'[r].value.content
                   /\ outcome'[r].value.deleted = req[r].delete
                   /\ req[r].delete => StorageDelete(objects', req[r].file_hash) = objects'
             /\ (pc'[r] = "done" /\ outcome'[r].kind = "raised") =>
                   /\ resp'[r].status = 404
                   /\ pc[r] = "handler"]_vars

\* C10 witness: a GET with delete=true read the content, the object was
\* removed by another request before its own delete, and it was answered 200.
PostReadDeletionWitness ==
    \E r \in Reqs :
        /\ Done(r, "get_file")
        /\ req[r].delete
        /\ outcome[r].kind = "returned"
        /\ outcome[r].value.deleted
        /\ ~outcome[r].value.existed
        /\ resp[r].status = 200

\* C3: exit-code passthrough.  A completed POST /v1/execute whose dispatcher
\* call returned a result is answered 200 with exactly that result's stdout,
\* stderr, exit_code and files, whatever the exit code; it is answered with a
\* failure status only when the dispatcher raised (500) or when the request
\* was rejected by validation and the dispatcher was never called (422).
ExitCodePassthrough ==
    \A r \in Reqs :
        Done(r, "execute")
        => /\ outcome[r].kind = "returned" =>
                 resp[r] = [status |-> 200,
                            body |-> [stdout |-> outcome[r].value.stdout,
                                      stderr |-> outcome[r].value.stderr,
                                      exit_code |-> outcome[r].value.exit_code,
                                      files |-> outcome[r].value.files]]
           /\ outcome[r].kind = "raised" => resp[r].status = 500
           /\ resp[r].status # 200 =>
                 \/ outcome[r].kind = "raised" /\ call[r].made
                 \/ resp[r].status = 422 /\ ~call[r].made

\* C3 witness: a run that exited with code 7 was answered 200 with exit_code 7
\* while a run the dispatcher failed to make was answered 500.
ExitCodePassthroughWitness ==
    \E r, q \in Reqs :
        /\ Done(r, "execute")
        /\ outcome[r].kind = "returned"
        /\ outcome[r].value.exit_code = 7
        /\ resp[r].status = 200
        /\ resp[r].body.exit_code = 7
        /\ Done(q, "execute")
        /\ outcome[q].kind = "raised"
        /\ resp[q].status = 500

\* C4: a referenced hash that is not in the Store is answered 404 on every
\* endpoint that references hashes: every completed request whose collaborator
\* raised not-found has status 404.
MissingHashNotFound ==
    \A r \in Reqs :
        (pc[r] = "done" /\ outcome[r].kind = "raised"
            /\ outcome[r].value.type = "FileNotFoundError")
        => resp[r].status = 404

\* C5: tool failures keep their shapes.  A CustomToolParseError raised in
\* parse_custom_tool is answered 400 with {error_messages} holding every
\* message of the error; a CustomToolExecuteError raised in
\* execute_custom_tool is answered 400 with {stderr} holding its text.
ToolFailureShapes ==
    \A r \in Reqs :
        /\ (Done(r, "parse_custom_tool") /\ outcome[r].kind = "raised"
               /\ outcome[r].value.type = "CustomToolParseError")
           => resp[r] = [status |-> 400,
                         body |-> [error_messages |-> outcome[r].value.errors]]
        /\ (Done(r, "execute_custom_tool") /\ outcome[r].kind = "raised"
               /\ outcome[r].value.type = "CustomToolExecuteError")
           => resp[r] = [status |-> 400,
                         body |-> [stderr |-> outcome[r].value.msg]]

\* C5 witness: a parse failure with two messages and an execution failure
\* were both answered, each 400.
ToolFailureShapesWitness ==
    \E r, q \in Reqs :
        /\ Done(r, "parse_custom_tool")
        /\ outcome[r].kind = "raised"
        /\ resp[r].body = [error_messages |-> <<"e1", "e2">>]
        /\ Done(q, "execute_custom_tool")
        /\ outcome[q].kind = "raised"
        /\ outcome[q].value.type = "CustomToolExecuteError"
        /\ resp[q].body = [stderr |-> "traceback"]

\* C7: every call of the dispatcher's execute carries a timeout greater than
\* zero, and a request whose timeout is zero or negative is rejected and
\* never reaches the dispatcher.
PositiveTimeout ==
    \A r \in Reqs :
        /\ call[r].made => call[r].timeout > 0
        /\ (Done(r, "execute") /\ req[r].timeout <= 0)
           => (~call[r].made /\ resp[r].status = 422)

\* C8: server-side failures are opaque.  Two completed requests of the same
\* endpoint with the same parameters that were both answered 5xx carry the
\* same response, and no 5xx body holds the text of the exception raised.
OpaqueServerErrors ==
    /\ \A r, q \in Reqs :
          (pc[r] = "done" /\ pc[q] = "done" /\ req[r] = req[q]
              /\ resp[r].status >= 500 /\ resp[q].status >= 500)
          => resp[r] = resp[q]
    /\ \A r \in Reqs :
          (pc[r] = "done" /\ resp[r].status >= 500 /\ outcome[r].kind = "raised")
          => resp[r].body # [detail |-> outcome[r].value.msg]

\* C9: correlation identifiers are per request and private.  While a handler
\* runs its request has an identifier, no other request has the same one, and
\* the identifier in effect in the context of the request (the value of
\* request_id_context_var there) is its own.
CorrelationIds ==
    \A r \in Reqs :
        pc[r] \in {"handler", "deleting"}
        => /\ request_id[r] # Unset
           /\ \A q \in Reqs \ {r} : request_id[q] # request_id[r]
           /\ taskCtx[r] = request_id[r]

====
